---- MODULE Spec2Model ----
(***************************************************************************)
(* Model of the onedrive-clone folder synchroniser (sync/sync.js, in its   *)
(* two variants src/unnamed/part_001 and src/unnamed/part_002).            *)
(*                                                                         *)
(* The process is a single-threaded event loop.  One action of the model   *)
(* is one run-to-completion segment of JavaScript: the code between two    *)
(* awaits.  A store put completes in a later event-loop turn, and only     *)
(* once every pending promise continuation has run.                        *)
(***************************************************************************)
EXTENDS Integers, Sequences, FiniteSets

VARIABLES
    pc,          \* position of main(): "start", "enumerating", "uploading", "rejected", "exited"
    variant,     \* 1: src/unnamed/part_001, 2: src/unnamed/part_002
    dir,         \* out.dir as parsed: "" when --dir is absent
    bucket,      \* process.env.S3_BUCKET, "" when unset
    region,      \* process.env.AWS_REGION, "" when unset
    dry,         \* out.dry
    concurrency, \* out.concurrency: [nan |-> BOOLEAN, val |-> Int], the result of parseInt
    entries,     \* entries.length, the number of enumerated files (items 0..entries-1)
    nextIndex,   \* the shared cursor (nextIndex in part_001, idx in part_002)
    runners,     \* the run() coroutines: sequence of [st, i]
    results,     \* the results array: "empty" is a hole, "undefined" a stored worker value
    claimed,     \* indices the worker was invoked on, in invocation order
    failures,    \* the worker invocations that threw: [file, kind]
    puts,        \* indices for which s3.send(PutObjectCommand) was called, in order
    stored,      \* indices whose put completed successfully
    stdout,      \* console.log lines, in order: [msg, file]
    stderr,      \* console.error lines, in order
    exitCode,    \* process exit status, meaningful when pc = "exited"
    thrown,      \* the error main() rejected with, "none" before
    fgCalled,    \* whether fg() was called (the enumeration was started)
    rel,         \* key mapper input: a relative path (sequence of characters)
    prefix,      \* key mapper input: the --prefix value
    key1,        \* key computed by part_001, <<"unset">> before
    key2,        \* key computed by part_002, <<"unset">> before
    ext,         \* content type input: the extension of rel as mime.lookup sees it, "" if none
    contentType1, \* ContentType computed by part_001, "unset" before
    contentType2, \* ContentType computed by part_002, "unset" before
    lim1,        \* side by side: a call of limitConcurrency of part_001
    lim2,        \* side by side: the same call of limitConcurrency of part_002
    pairIn,      \* side by side: the arguments of the call, [called, limit, len, dry]
    reqs         \* HTTP facade: the requests received, each with its responses

syncVars == <<pc, variant, dir, bucket, region, dry, concurrency, entries, nextIndex,
              runners, results, claimed, failures, puts, stored, stdout, stderr, exitCode,
              thrown, fgCalled>>
keyVars == <<rel, prefix, key1, key2, ext, contentType1, contentType2>>
pairVars == <<lim1, lim2, pairIn>>
serverVars == <<reqs>>
vars == <<syncVars, keyVars, pairVars, serverVars>>

\* the parts of the state that a specification leaves alone
NoCall == [called |-> FALSE, limit |-> 0, len |-> 0, dry |-> FALSE]
NoLimiter == [status |-> "idle", nextIndex |-> 0, runners |-> <<>>, results |-> <<>>,
              claimed |-> <<>>, failures |-> {}, puts |-> <<>>, stored |-> {},
              stdout |-> <<>>]
PairIdle == lim1 = NoLimiter /\ lim2 = NoLimiter /\ pairIn = NoCall
ServerIdle == reqs = <<>>

(***************************************************************************)
(* Bounds of the model.                                                    *)
(***************************************************************************)
MaxFiles == 3
MaxConcurrency == 4
MaxStrLen == 3
MaxRequests == 2

(***************************************************************************)
(* JavaScript numbers as far as parseInt produces them: an integer or NaN. *)
(***************************************************************************)
NaN == [nan |-> TRUE, val |-> 0]
Num(n) == [nan |-> FALSE, val |-> n]

DefaultConcurrency == 5

ConcurrencyValues == {NaN} \cup {Num(n) : n \in (0 - 1)..MaxConcurrency} \cup {Num(DefaultConcurrency)}

\* Math.min(limit, items.length): NaN if an argument is NaN
MathMin(limit, len) ==
    IF limit.nan THEN NaN
    ELSE IF limit.val < len THEN limit ELSE Num(len)

\* ToLength, applied by Array.from to the length of its array-like: NaN and negatives give 0
ToLength(n) == IF n.nan \/ n.val < 0 THEN 0 ELSE n.val

\* new Array(n) throws RangeError unless n is a non-negative integer
ArrayLengthValid(n) == ~n.nan /\ n.val >= 0

\* Array.from({ length: limit }, run): the limit is not clamped to the number of items
RunnerCount1NoClamp(limit, len) == ToLength(limit)

\* part_001: Array.from({ length: Math.min(limit, items.length) }, run)
RunnerCount1(limit, len) == ToLength(MathMin(limit, len))

\* part_002: new Array(Math.min(limit, items.length)).fill(null).map(...)
RunnerCount2(limit, len) == MathMin(limit, len).val

(***************************************************************************)
(* limitConcurrency.  The state the runners share is passed around as a    *)
(* record s = [nextIndex, runners, claimed, failures, puts, stdout].       *)
(* A runner is [st, i]: st is                                              *)
(*   "inflight"  awaiting worker(items[i]) whose s3.send is pending,       *)
(*   "resolved"  worker(items[i]) has resolved, the await has not resumed, *)
(*   "thrown"    worker(items[i]) has rejected, the await has not resumed, *)
(*   "done"      the loop was left normally, run()'s promise is resolved,  *)
(*   "rejected"  the await rethrew, run()'s promise is rejected.           *)
(***************************************************************************)
Line(m, f) == [msg |-> m, file |-> f]
NoFile == 0 - 1

\* The worker callback up to its first await, invoked on items[i] by runner k.
\* readOk: whether fs.readFileSync(abs) returns (it throws otherwise).
Worker(s, k, i, readOk, isDry) ==
    LET s1 == [s EXCEPT !.claimed = Append(@, i)] IN
    IF ~readOk THEN
        [s1 EXCEPT !.failures = @ \cup {[file |-> i, kind |-> "read"]},
                   !.runners[k] = [st |-> "thrown", i |-> i]]
    ELSE IF isDry THEN
        [s1 EXCEPT !.stdout = Append(@, Line("[dry] PUT", i)),
                   !.runners[k] = [st |-> "resolved", i |-> i]]
    ELSE
        [s1 EXCEPT !.puts = Append(@, i),
                   !.runners[k] = [st |-> "inflight", i |-> i]]

\* run() reading the cursor without advancing it: const i = nextIndex
Run1Stale(s, k, len, readOk, isDry) ==
    LET i == s.nextIndex
    IN  IF i >= len
        THEN [s EXCEPT !.runners[k] = [st |-> "done", i |-> NoFile]]
        ELSE Worker(s, k, i, readOk, isDry)

\* run() leaving its loop one claim late: if (i > items.length) break
Run1OffByOne(s, k, len, readOk, isDry) ==
    LET i == s.nextIndex
        s1 == [s EXCEPT !.nextIndex = i + 1]
    IN  IF i > len
        THEN [s1 EXCEPT !.runners[k] = [st |-> "done", i |-> NoFile]]
        ELSE Worker(s1, k, i, readOk, isDry)

\* part_001 run(): const i = nextIndex++; if (i >= items.length) break; await worker(items[i])
Run1(s, k, len, readOk, isDry) ==
    LET i == s.nextIndex
        s1 == [s EXCEPT !.nextIndex = i + 1]
    IN  IF i >= len
        THEN [s1 EXCEPT !.runners[k] = [st |-> "done", i |-> NoFile]]
        ELSE Worker(s1, k, i, readOk, isDry)

\* part_002 runner testing the cursor with <=: while (idx <= items.length)
Run2OffByOne(s, k, len, readOk, isDry) ==
    IF s.nextIndex <= len
    THEN LET current == s.nextIndex
             s1 == [s EXCEPT !.nextIndex = current + 1]
         IN  Worker(s1, k, current, readOk, isDry)
    ELSE [s EXCEPT !.runners[k] = [st |-> "done", i |-> NoFile]]

\* part_002 runner: while (idx < items.length) { const current = idx++; await worker(items[current]) }
Run2(s, k, len, readOk, isDry) ==
    IF s.nextIndex < len
    THEN LET current == s.nextIndex
             s1 == [s EXCEPT !.nextIndex = current + 1]
         IN  Worker(s1, k, current, readOk, isDry)
    ELSE [s EXCEPT !.runners[k] = [st |-> "done", i |-> NoFile]]

Run(v, s, k, len, readOk, isDry) ==
    IF v = 1 THEN Run1(s, k, len, readOk, isDry) ELSE Run2(s, k, len, readOk, isDry)

\* The runners are started one after the other, each running to its first await
\* before the next starts (the map callback of Array.from / Array.prototype.map).
RECURSIVE StartRunners(_, _, _, _, _, _, _)
StartRunners(v, s, k, n, len, rd, isDry) ==
    IF k > n THEN s
    ELSE StartRunners(v,
            Run(v, [s EXCEPT !.runners = Append(@, [st |-> "new", i |-> NoFile])],
                k, len, rd[k], isDry),
            k + 1, n, len, rd, isDry)

RunnerCount(v, limit, len) ==
    IF v = 1 THEN RunnerCount1(limit, len) ELSE RunnerCount2(limit, len)

\* part_001: new Array(items.length); part_002: []
NewResults(v, len) == IF v = 1 THEN [j \in 1..len |-> "empty"] ELSE <<>>

\* results[i] = value, on a JavaScript array: writing past the end leaves holes
SetResult(res, i, value) ==
    IF i + 1 <= Len(res) THEN [res EXCEPT ![i + 1] = value]
    ELSE [j \in 1..(i + 1) |-> IF j <= Len(res) THEN res[j]
                               ELSE IF j = i + 1 THEN value ELSE "empty"]

Shared == [nextIndex |-> nextIndex, runners |-> runners, claimed |-> claimed,
           failures |-> failures, puts |-> puts, stdout |-> stdout]

SetShared(s) ==
    /\ nextIndex' = s.nextIndex
    /\ runners' = s.runners
    /\ claimed' = s.claimed
    /\ failures' = s.failures
    /\ puts' = s.puts
    /\ stdout' = s.stdout

\* promise continuations wait to run: no I/O callback runs before they have
MicrotaskPending ==
    \/ pc = "rejected"
    \/ \E k \in 1..Len(runners) : runners[k].st \in {"resolved", "thrown"}
    \/ \A k \in 1..Len(runners) : runners[k].st = "done"

(***************************************************************************)
(* main()                                                                  *)
(***************************************************************************)
Init ==
    /\ pc = "start"
    /\ variant = 1
    /\ dir = ""
    /\ bucket = ""
    /\ region = ""
    /\ dry = FALSE
    /\ concurrency = Num(DefaultConcurrency)
    /\ entries = 0
    /\ nextIndex = 0
    /\ runners = <<>>
    /\ results = <<>>
    /\ claimed = <<>>
    /\ failures = {}
    /\ puts = <<>>
    /\ stored = {}
    /\ stdout = <<>>
    /\ stderr = <<>>
    /\ exitCode = 0
    /\ thrown = "none"
    /\ fgCalled = FALSE
    /\ rel = <<>>
    /\ prefix = <<>>
    /\ key1 = <<"unset">>
    /\ key2 = <<"unset">>
    /\ ext = ""
    /\ contentType1 = "unset"
    /\ contentType2 = "unset"
    /\ PairIdle
    /\ ServerIdle

Exit(code) == pc' = "exited" /\ exitCode' = code

\* main() from parseArgs() to the call of fg(), without the test of bucket and region
StartNoEnvCheck ==
    /\ pc = "start"
    /\ \E v \in {1, 2}, d \in {"", "./folder"}, b \in {"", "bucket"}, r \in {"", "region"},
          dr \in BOOLEAN, c \in ConcurrencyValues :
        /\ variant' = v /\ dir' = d /\ bucket' = b /\ region' = r
        /\ dry' = dr /\ concurrency' = c
        /\ IF d = "" THEN
               /\ stderr' = Append(stderr, "Usage")
               /\ Exit(1)
               /\ UNCHANGED fgCalled
           ELSE
               /\ pc' = "enumerating"
               /\ fgCalled' = TRUE
               /\ UNCHANGED <<stderr, exitCode>>
    /\ UNCHANGED <<entries, nextIndex, runners, results, claimed, failures, puts, stored,
                   stdout, thrown, keyVars, pairVars, serverVars>>

\* main() from parseArgs() to the call of fg(): the command line and the environment
\* are read, and the process exits at once on a missing --dir or a missing variable.
Start ==
    /\ pc = "start"
    /\ \E v \in {1, 2}, d \in {"", "./folder"}, b \in {"", "bucket"}, r \in {"", "region"},
          dr \in BOOLEAN, c \in ConcurrencyValues :
        /\ variant' = v /\ dir' = d /\ bucket' = b /\ region' = r
        /\ dry' = dr /\ concurrency' = c
        /\ IF d = "" THEN
               /\ stderr' = Append(stderr, "Usage")
               /\ Exit(1)
               /\ UNCHANGED fgCalled
           ELSE IF b = "" \/ r = "" THEN
               /\ stderr' = Append(stderr, "Missing S3_BUCKET or AWS_REGION")
               /\ Exit(1)
               /\ UNCHANGED fgCalled
           ELSE
               /\ pc' = "enumerating"
               /\ fgCalled' = TRUE
               /\ UNCHANGED <<stderr, exitCode>>
    /\ UNCHANGED <<entries, nextIndex, runners, results, claimed, failures, puts, stored,
                   stdout, thrown, keyVars, pairVars, serverVars>>

\* fg() rejects: main() rejects and the catch handler of main() exits.
EnumerateFails ==
    /\ pc = "enumerating"
    /\ thrown' = "enumerate"
    /\ stderr' = Append(stderr, "enumerate")
    /\ Exit(1)
    /\ UNCHANGED <<variant, dir, bucket, region, dry, concurrency, entries, nextIndex,
                   runners, results, claimed, failures, puts, stored, stdout, fgCalled, keyVars, pairVars, serverVars>>

\* fg() resolves with len entries; main() runs on into limitConcurrency, which starts
\* its runners and awaits them.
Enumerate ==
    /\ pc = "enumerating"
    /\ \E len \in 0..MaxFiles :
        /\ entries' = len
        /\ IF len = 0 THEN
               /\ stdout' = Append(stdout, Line("No files found.", NoFile))
               /\ Exit(0)
               /\ UNCHANGED <<nextIndex, runners, results, claimed, failures, puts, thrown>>
           ELSE IF variant = 2 /\ ~ArrayLengthValid(MathMin(concurrency, len)) THEN
               /\ stdout' = Append(stdout, Line("Uploading", NoFile))
               /\ pc' = "rejected"
               /\ thrown' = "RangeError"
               /\ UNCHANGED <<nextIndex, runners, results, claimed, failures, puts, exitCode>>
           ELSE
               LET n == RunnerCount(variant, concurrency, len) IN
               \E rd \in [1..n -> BOOLEAN] :
                   /\ SetShared(StartRunners(variant,
                          [Shared EXCEPT !.stdout = Append(@, Line("Uploading", NoFile))],
                          1, n, len, rd, dry))
                   /\ results' = NewResults(variant, len)
                   /\ pc' = "uploading"
                   /\ UNCHANGED <<exitCode, thrown>>
    /\ UNCHANGED <<variant, dir, bucket, region, dry, concurrency, stored, stderr, fgCalled, keyVars, pairVars, serverVars>>

\* s3.send() of runner k settles; on success the worker logs and returns.
PutComplete ==
    /\ pc = "uploading"
    /\ ~MicrotaskPending
    /\ \E k \in 1..Len(runners), ok \in BOOLEAN :
        /\ runners[k].st = "inflight"
        /\ LET i == runners[k].i IN
           IF ok THEN
               /\ stored' = stored \cup {i}
               /\ stdout' = Append(stdout, Line("PUT", i))
               /\ runners' = [runners EXCEPT ![k].st = "resolved"]
               /\ UNCHANGED failures
           ELSE
               /\ failures' = failures \cup {[file |-> i, kind |-> "put"]}
               /\ runners' = [runners EXCEPT ![k].st = "thrown"]
               /\ UNCHANGED <<stored, stdout>>
    /\ UNCHANGED <<pc, variant, dir, bucket, region, dry, concurrency, entries, nextIndex,
                   results, claimed, puts, stderr, exitCode, thrown, fgCalled, keyVars, pairVars, serverVars>>

\* the await in runner k resumes with the worker's value: it is stored and the loop goes on
ResumeResolved ==
    /\ pc \in {"uploading", "rejected"}
    /\ \E k \in 1..Len(runners), readOk \in BOOLEAN :
        /\ runners[k].st = "resolved"
        /\ results' = SetResult(results, runners[k].i, "undefined")
        /\ SetShared(Run(variant, Shared, k, entries, readOk, dry))
    /\ UNCHANGED <<pc, variant, dir, bucket, region, dry, concurrency, entries, stored,
                   stderr, exitCode, thrown, fgCalled, keyVars, pairVars, serverVars>>

\* a Promise.all that does not pass the rejection of a runner on
PromiseAllSwallow(p) == p

\* what Promise.all does to the promise main() awaits when a runner rejects
PromiseAllReject(p) == IF p = "uploading" THEN "rejected" ELSE p

\* the await in runner k resumes by rethrowing: run() rejects, and with it Promise.all
ResumeThrown ==
    /\ pc \in {"uploading", "rejected"}
    /\ \E k \in 1..Len(runners) :
        /\ runners[k].st = "thrown"
        /\ runners' = [runners EXCEPT ![k].st = "rejected"]
        /\ pc' = PromiseAllReject(pc)
        /\ thrown' = IF pc = "uploading"
                     THEN (CHOOSE f \in failures : f.file = runners[k].i).kind
                     ELSE thrown
    /\ UNCHANGED <<variant, dir, bucket, region, dry, concurrency, entries, nextIndex,
                   results, claimed, failures, puts, stored, stdout, stderr, exitCode, fgCalled, keyVars, pairVars, serverVars>>

\* every runner has left its loop: Promise.all resolves, main() logs and returns
Finish ==
    /\ pc = "uploading"
    /\ \A k \in 1..Len(runners) : runners[k].st = "done"
    /\ stdout' = Append(stdout, Line("Done.", NoFile))
    /\ Exit(0)
    /\ UNCHANGED <<variant, dir, bucket, region, dry, concurrency, entries, nextIndex,
                   runners, results, claimed, failures, puts, stored, stderr, thrown, fgCalled, keyVars, pairVars, serverVars>>

\* main().catch: console.error(e); process.exit(1)
Crash ==
    /\ pc = "rejected"
    /\ stderr' = Append(stderr, thrown)
    /\ Exit(1)
    /\ UNCHANGED <<variant, dir, bucket, region, dry, concurrency, entries, nextIndex,
                   runners, results, claimed, failures, puts, stored, stdout, thrown, fgCalled, keyVars, pairVars, serverVars>>

Next ==
    \/ Start
    \/ EnumerateFails
    \/ Enumerate
    \/ PutComplete
    \/ ResumeResolved
    \/ ResumeThrown
    \/ Finish
    \/ Crash

Spec == Init /\ [][Next]_vars

\* The event loop runs every continuation that is ready, fg() settles, and the store
\* settles every put that was started.
FairSpec ==
    /\ Spec
    /\ WF_vars(Start)
    /\ WF_vars(Enumerate \/ EnumerateFails)
    /\ WF_vars(PutComplete)
    /\ WF_vars(ResumeResolved)
    /\ WF_vars(ResumeThrown)
    /\ WF_vars(Finish)
    /\ WF_vars(Crash)

(***************************************************************************)
(* The key computation of the worker.  A string is a sequence of           *)
(* one-character strings; the alphabet has a name character and the two    *)
(* separators.                                                             *)
(***************************************************************************)
Chars == {"a", "/", "\\"}
Strings(n) == UNION {[1..m -> Chars] : m \in 0..n}

\* \/+ matched greedily from position i: the position after the last slash of the run
RECURSIVE GreedySlashes(_, _)
GreedySlashes(s, i) ==
    IF i <= Len(s) /\ s[i] = "/" THEN GreedySlashes(s, i + 1) ELSE i

\* (^\/+) tried at position i: the position after the match, 0 if there is none
MatchLeading(s, i) ==
    IF i = 1 /\ Len(s) >= 1 /\ s[1] = "/" THEN GreedySlashes(s, 1) ELSE 0

\* (\/?$) in place of (\/+?$): a single slash, and only the last character
MatchTrailingOne(s, i, n) ==
    IF i = Len(s) /\ s[i] = "/" THEN i + 1 ELSE 0

\* (\/+?$) tried at position i with n slashes taken so far: one more slash is taken,
\* then $ is tried, and the match is extended only if $ fails
RECURSIVE MatchTrailing(_, _, _)
MatchTrailing(s, i, n) ==
    IF i + n > Len(s) THEN 0
    ELSE IF s[i + n] # "/" THEN 0
    ELSE IF i + n = Len(s) THEN i + n + 1
    ELSE MatchTrailing(s, i, n + 1)

\* the alternation tried at position i, first alternative first
MatchAt(s, i) ==
    LET a == MatchLeading(s, i) IN IF a # 0 THEN a ELSE MatchTrailing(s, i, 0)

\* s.replace(/(^\/+)|(\/+?$)/g, '') scanning from position i
RECURSIVE ReplaceTrim(_, _)
ReplaceTrim(s, i) ==
    IF i > Len(s) THEN <<>>
    ELSE LET e == MatchAt(s, i) IN
         IF e # 0 THEN ReplaceTrim(s, e)
         ELSE <<s[i]>> \o ReplaceTrim(s, i + 1)

\* s.split(sep) from position i, cur being the piece collected so far
RECURSIVE Split(_, _, _, _)
Split(s, sep, i, cur) ==
    IF i > Len(s) THEN <<cur>>
    ELSE IF s[i] = sep THEN <<cur>> \o Split(s, sep, i + 1, <<>>)
    ELSE Split(s, sep, i + 1, Append(cur, s[i]))

\* parts.join(sep)
RECURSIVE Join(_, _)
Join(parts, sep) ==
    IF Len(parts) = 0 THEN <<>>
    ELSE IF Len(parts) = 1 THEN parts[1]
    ELSE parts[1] \o <<sep>> \o Join(Tail(parts), sep)

\* s.replace('\\', '/'): without the g flag only the first backslash is replaced
ReplaceBackslashesFirst(s) ==
    [j \in 1..Len(s) |->
        IF s[j] = "\\" /\ (\A h \in 1..(j - 1) : s[h] # "\\") THEN "/" ELSE s[j]]

\* s.replace(/\\/g, '/')
ReplaceBackslashes(s) == [j \in 1..Len(s) |-> IF s[j] = "\\" THEN "/" ELSE s[j]]

\* the template `${prefix.replace(...)}/` under the test of prefix for truthiness
PrefixPart(p) == IF p # <<>> THEN ReplaceTrim(p, 1) \o <<"/">> ELSE <<>>

\* part_001: (prefix ? ... : '') + rel.split('\\').join('/')
Key1(r, p) == PrefixPart(p) \o Join(Split(r, "\\", 1, <<>>), "/")

\* part_002: (prefix ? ... : '') + rel.replace(/\\/g, '/')
Key2(r, p) == PrefixPart(p) \o ReplaceBackslashes(r)

Unset == <<"unset">>

(***************************************************************************)
(* The content type of the worker.  mime.lookup belongs to the mime-types  *)
(* package: it answers the type its table has for the extension of the     *)
(* path, and false when the path has no extension or the table has no type *)
(* for it.  A lookup result is [found, type], found = FALSE standing for    *)
(* false.                                                                  *)
(***************************************************************************)
\* the table has a type for jpg, txt and xyz, and none for bogus
Exts == {"jpg", "txt", "xyz", "bogus", ""}
MimeTypes ==
    [e \in {"jpg", "txt", "xyz"} |->
        IF e = "jpg" THEN "image/jpeg"
        ELSE IF e = "txt" THEN "text/plain"
        ELSE "chemical/x-xyz"]

MimeLookup(e) ==
    IF e \in DOMAIN MimeTypes THEN [found |-> TRUE, type |-> MimeTypes[e]]
    ELSE [found |-> FALSE, type |-> ""]

\* mime.lookup(rel) used as it comes, without the || fallback
ContentTypeNoFallback(e) == MimeLookup(e).type

\* mime.lookup(rel) || 'application/octet-stream': the right side for a falsy left side
ContentType(e) ==
    LET t == MimeLookup(e) IN
    IF t.found /\ t.type # "" THEN t.type ELSE "application/octet-stream"

KeyInit ==
    /\ pc = "start"
    /\ variant = 1
    /\ dir = ""
    /\ bucket = ""
    /\ region = ""
    /\ dry = FALSE
    /\ concurrency = Num(DefaultConcurrency)
    /\ entries = 0
    /\ nextIndex = 0
    /\ runners = <<>>
    /\ results = <<>>
    /\ claimed = <<>>
    /\ failures = {}
    /\ puts = <<>>
    /\ stored = {}
    /\ stdout = <<>>
    /\ stderr = <<>>
    /\ exitCode = 0
    /\ thrown = "none"
    /\ fgCalled = FALSE
    /\ rel \in Strings(MaxStrLen) \ {<<>>}
    /\ prefix \in Strings(MaxStrLen)
    /\ key1 = Unset
    /\ key2 = Unset
    /\ ext \in Exts
    /\ contentType1 = "unset"
    /\ contentType2 = "unset"
    /\ PairIdle
    /\ ServerIdle

\* the worker of part_001 computes the key and the content type of rel
MapKey1 ==
    /\ key1 = Unset
    /\ key1' = Key1(rel, prefix)
    /\ contentType1' = ContentType(ext)
    /\ UNCHANGED <<syncVars, rel, prefix, key2, ext, contentType2, pairVars, serverVars>>

\* the worker of part_002 computes the key and the content type of rel
MapKey2 ==
    /\ key2 = Unset
    /\ key2' = Key2(rel, prefix)
    /\ contentType2' = ContentType(ext)
    /\ UNCHANGED <<syncVars, rel, prefix, key1, ext, contentType1, pairVars, serverVars>>

KeyNext ==
    \/ MapKey1
    \/ MapKey2

KeySpec == KeyInit /\ [][KeyNext]_vars

(***************************************************************************)
(* limitConcurrency of part_001 and of part_002, side by side              *)
(***************************************************************************)
\* PairSpec calls the two variants with the same items, limit and worker, and feeds
\* both the same completions: the read of runner k's next file and the outcome of
\* runner k's put are one choice, applied to lim1 and to lim2.

\* limitConcurrency(items, limit, worker) up to its await Promise.all(runners)
LimCall(v, limit, len, rd, isDry) ==
    IF v = 2 /\ ~ArrayLengthValid(MathMin(limit, len))
    THEN [NoLimiter EXCEPT !.status = "rejected"]
    ELSE StartRunners(v,
             [NoLimiter EXCEPT !.status = "pending", !.results = NewResults(v, len)],
             1, RunnerCount(v, limit, len), len, rd, isDry)

LimHas(s, k, st) == k \in 1..Len(s.runners) /\ s.runners[k].st = st

\* s3.send() of runner k settles
LimPutComplete(s, k, ok) ==
    IF ~LimHas(s, k, "inflight") THEN s
    ELSE LET i == s.runners[k].i IN
         IF ok
         THEN [s EXCEPT !.stored = @ \cup {i},
                        !.stdout = Append(@, Line("PUT", i)),
                        !.runners[k].st = "resolved"]
         ELSE [s EXCEPT !.failures = @ \cup {[file |-> i, kind |-> "put"]},
                        !.runners[k].st = "thrown"]

\* the await in runner k resumes with the worker's value
LimResumeResolved(v, s, k, len, readOk, isDry) ==
    IF ~LimHas(s, k, "resolved") THEN s
    ELSE Run(v, [s EXCEPT !.results = SetResult(@, s.runners[k].i, "undefined")],
             k, len, readOk, isDry)

\* the await in runner k resumes by rethrowing
LimResumeThrown(s, k) ==
    IF ~LimHas(s, k, "thrown") THEN s
    ELSE [s EXCEPT !.runners[k].st = "rejected",
                   !.status = PromiseAllReject(IF @ = "pending" THEN "uploading" ELSE @)]

LimAllDone(s) ==
    s.status = "pending" /\ \A k \in 1..Len(s.runners) : s.runners[k].st = "done"

\* await Promise.all(runners) resumes: return results
LimReturn(s) == IF LimAllDone(s) THEN [s EXCEPT !.status = "returned"] ELSE s

LimMicrotaskPending(s) ==
    \/ LimAllDone(s)
    \/ \E k \in 1..Len(s.runners) : s.runners[k].st \in {"resolved", "thrown"}

PairInit ==
    /\ pc = "start"
    /\ variant = 1
    /\ dir = ""
    /\ bucket = ""
    /\ region = ""
    /\ dry = FALSE
    /\ concurrency = Num(DefaultConcurrency)
    /\ entries = 0
    /\ nextIndex = 0
    /\ runners = <<>>
    /\ results = <<>>
    /\ claimed = <<>>
    /\ failures = {}
    /\ puts = <<>>
    /\ stored = {}
    /\ stdout = <<>>
    /\ stderr = <<>>
    /\ exitCode = 0
    /\ thrown = "none"
    /\ fgCalled = FALSE
    /\ rel = <<>>
    /\ prefix = <<>>
    /\ key1 = Unset
    /\ key2 = Unset
    /\ ext = ""
    /\ contentType1 = "unset"
    /\ contentType2 = "unset"
    /\ PairIdle
    /\ ServerIdle

MaxRunners(limit, len) ==
    LET n1 == RunnerCount1(limit, len)
        n2 == RunnerCount2(limit, len)
    IN  IF n1 >= n2 THEN n1 ELSE n2

\* both variants are called with the same items and the same integer limit >= 1
PairCall ==
    /\ ~pairIn.called
    /\ \E l \in 1..MaxConcurrency, len \in 0..MaxFiles, dr \in BOOLEAN :
        \E rd \in [1..MaxRunners(Num(l), len) -> BOOLEAN] :
            /\ pairIn' = [called |-> TRUE, limit |-> l, len |-> len, dry |-> dr]
            /\ lim1' = LimCall(1, Num(l), len, rd, dr)
            /\ lim2' = LimCall(2, Num(l), len, rd, dr)
    /\ UNCHANGED <<syncVars, keyVars, serverVars>>

\* the put of runner k settles, in both
PairPutComplete ==
    /\ pairIn.called
    /\ ~LimMicrotaskPending(lim1) /\ ~LimMicrotaskPending(lim2)
    /\ \E k \in 1..MaxConcurrency, ok \in BOOLEAN :
        /\ LimHas(lim1, k, "inflight") \/ LimHas(lim2, k, "inflight")
        /\ lim1' = LimPutComplete(lim1, k, ok)
        /\ lim2' = LimPutComplete(lim2, k, ok)
    /\ UNCHANGED <<syncVars, keyVars, serverVars, pairIn>>

\* runner k goes round its loop, in both
PairResumeResolved ==
    /\ pairIn.called
    /\ \E k \in 1..MaxConcurrency, readOk \in BOOLEAN :
        /\ LimHas(lim1, k, "resolved") \/ LimHas(lim2, k, "resolved")
        /\ lim1' = LimResumeResolved(1, lim1, k, pairIn.len, readOk, pairIn.dry)
        /\ lim2' = LimResumeResolved(2, lim2, k, pairIn.len, readOk, pairIn.dry)
    /\ UNCHANGED <<syncVars, keyVars, serverVars, pairIn>>

\* runner k rejects, in both
PairResumeThrown ==
    /\ pairIn.called
    /\ \E k \in 1..MaxConcurrency :
        /\ LimHas(lim1, k, "thrown") \/ LimHas(lim2, k, "thrown")
        /\ lim1' = LimResumeThrown(lim1, k)
        /\ lim2' = LimResumeThrown(lim2, k)
    /\ UNCHANGED <<syncVars, keyVars, serverVars, pairIn>>

\* Promise.all resolves and the results are returned, in both
PairReturn ==
    /\ pairIn.called
    /\ LimAllDone(lim1) \/ LimAllDone(lim2)
    /\ lim1' = LimReturn(lim1)
    /\ lim2' = LimReturn(lim2)
    /\ UNCHANGED <<syncVars, keyVars, serverVars, pairIn>>

PairNext ==
    \/ PairCall
    \/ PairPutComplete
    \/ PairResumeResolved
    \/ PairResumeThrown
    \/ PairReturn

PairSpec == PairInit /\ [][PairNext]_vars

(***************************************************************************)
(* server.js: the handlers that take an object key                         *)
(***************************************************************************)
\* a JavaScript value read as the key: undefined, or a string
Undefined == [type |-> "undefined", str |-> ""]
Str(s) == [type |-> "string", str |-> s]
KeyValues == {Undefined, Str(""), Str("a.jpg"), Str("a.xyz"), Str("a.bogus")}
ContentTypeValues == {Undefined, Str(""), Str("text/csv")}

\* !v and its opposite, for undefined and strings
Falsy(v) == v.type = "undefined" \/ v.str = ""

\* the extension mime.lookup() reads off the key
ExtOf(k) ==
    IF k = "a.jpg" THEN "jpg"
    ELSE IF k = "a.xyz" THEN "xyz"
    ELSE IF k = "a.bogus" THEN "bogus"
    ELSE ""

\* contentType || mime.lookup(key) || 'application/octet-stream'
UploadContentType(ct, key) == IF Falsy(ct) THEN ContentType(ExtOf(key.str)) ELSE ct.str

Routes == {"POST /api/upload-url", "GET /api/download-url", "DELETE /api/files"}

\* the call each handler awaits
CallOf(route) ==
    IF route = "POST /api/upload-url" THEN "getSignedUrl(PutObject)"
    ELSE IF route = "GET /api/download-url" THEN "getSignedUrl(GetObject)"
    ELSE IF route = "DELETE /api/files" THEN "send(DeleteObject)"
    ELSE "send(ListObjectsV2)"

\* the message of each handler's catch block
FailureOf(route) ==
    IF route = "POST /api/upload-url" THEN "Failed to create upload URL"
    ELSE IF route = "GET /api/download-url" THEN "Failed to create download URL"
    ELSE IF route = "DELETE /api/files" THEN "Failed to delete file"
    ELSE "Failed to list files"

Response(status, error, ct) == [status |-> status, error |-> error, contentType |-> ct]

\* const { key, contentType } = req.body || {}  /  const key = req.query.key
Field(hasObject, v) == IF hasObject THEN v ELSE Undefined

\* a handler that answers 400 without returning, and goes on to its call
HandleNoReturn(route, hasObject, keyIn, ctIn) ==
    LET key == Field(hasObject, keyIn)
        ct == Field(hasObject, ctIn)
    IN  [route |-> route, key |-> key,
         ct |-> IF route = "POST /api/upload-url" THEN UploadContentType(ct, key) ELSE "",
         st |-> "awaiting",
         calls |-> <<CallOf(route)>>,
         responses |-> IF Falsy(key) THEN <<Response(400, "key is required", "")>>
                       ELSE <<>>]

\* a handler from its entry to its return or its await:
\* if (!key) return res.status(400).json({ error: 'key is required' }); ...; await <call>
Handle(route, hasObject, keyIn, ctIn) ==
    LET key == Field(hasObject, keyIn)
        ct == Field(hasObject, ctIn)
    IN  IF Falsy(key)
        THEN [route |-> route, key |-> key, ct |-> "", st |-> "finished",
              calls |-> <<>>,
              responses |-> <<Response(400, "key is required", "")>>]
        ELSE [route |-> route, key |-> key,
              ct |-> IF route = "POST /api/upload-url" THEN UploadContentType(ct, key) ELSE "",
              st |-> "awaiting",
              calls |-> <<CallOf(route)>>,
              responses |-> <<>>]

ServerInit ==
    /\ pc = "start"
    /\ variant = 1
    /\ dir = ""
    /\ bucket = ""
    /\ region = ""
    /\ dry = FALSE
    /\ concurrency = Num(DefaultConcurrency)
    /\ entries = 0
    /\ nextIndex = 0
    /\ runners = <<>>
    /\ results = <<>>
    /\ claimed = <<>>
    /\ failures = {}
    /\ puts = <<>>
    /\ stored = {}
    /\ stdout = <<>>
    /\ stderr = <<>>
    /\ exitCode = 0
    /\ thrown = "none"
    /\ fgCalled = FALSE
    /\ rel = <<>>
    /\ prefix = <<>>
    /\ key1 = Unset
    /\ key2 = Unset
    /\ ext = ""
    /\ contentType1 = "unset"
    /\ contentType2 = "unset"
    /\ PairIdle
    /\ ServerIdle

\* app.post('/api/upload-url'): the body may be absent, and holds key and contentType
PostUploadUrl ==
    /\ Len(reqs) < MaxRequests
    /\ \E hasBody \in BOOLEAN, k \in KeyValues, ct \in ContentTypeValues :
        /\ ~hasBody => (k = Undefined /\ ct = Undefined)
        /\ reqs' = Append(reqs, Handle("POST /api/upload-url", hasBody, k, ct))
    /\ UNCHANGED <<syncVars, keyVars, pairVars>>

\* app.get('/api/download-url'): req.query is always an object
GetDownloadUrl ==
    /\ Len(reqs) < MaxRequests
    /\ \E k \in KeyValues :
        reqs' = Append(reqs, Handle("GET /api/download-url", TRUE, k, Undefined))
    /\ UNCHANGED <<syncVars, keyVars, pairVars>>

\* app.delete('/api/files'): the body may be absent, and holds key
DeleteFile ==
    /\ Len(reqs) < MaxRequests
    /\ \E hasBody \in BOOLEAN, k \in KeyValues :
        /\ ~hasBody => k = Undefined
        /\ reqs' = Append(reqs, Handle("DELETE /api/files", hasBody, k, Undefined))
    /\ UNCHANGED <<syncVars, keyVars, pairVars>>

\* app.get('/api/health'): res.json({ ok: true }), with no call
GetHealth ==
    /\ Len(reqs) < MaxRequests
    /\ reqs' = Append(reqs, [route |-> "GET /api/health", key |-> Undefined, ct |-> "",
                             st |-> "finished", calls |-> <<>>,
                             responses |-> <<Response(200, "", "")>>])
    /\ UNCHANGED <<syncVars, keyVars, pairVars>>

\* app.get('/api/files'): no key is read; await s3.send(ListObjectsV2Command)
GetFiles ==
    /\ Len(reqs) < MaxRequests
    /\ reqs' = Append(reqs, [route |-> "GET /api/files", key |-> Undefined, ct |-> "",
                             st |-> "awaiting", calls |-> <<CallOf("GET /api/files")>>,
                             responses |-> <<>>])
    /\ UNCHANGED <<syncVars, keyVars, pairVars>>

\* the awaited call of request j resolves: res.json(...)
CallResolves ==
    /\ \E j \in 1..Len(reqs) :
        /\ reqs[j].st = "awaiting"
        /\ reqs' = [reqs EXCEPT ![j].st = "finished",
                                ![j].responses = Append(@, Response(200, "", reqs[j].ct))]
    /\ UNCHANGED <<syncVars, keyVars, pairVars>>

\* the awaited call of request j rejects: catch (err) { res.status(500).json(...) }
CallRejects ==
    /\ \E j \in 1..Len(reqs) :
        /\ reqs[j].st = "awaiting"
        /\ reqs' = [reqs EXCEPT ![j].st = "failed",
                                ![j].responses =
                                    Append(@, Response(500, FailureOf(reqs[j].route), ""))]
    /\ UNCHANGED <<syncVars, keyVars, pairVars>>

ServerNext ==
    \/ GetHealth
    \/ GetFiles
    \/ PostUploadUrl
    \/ GetDownloadUrl
    \/ DeleteFile
    \/ CallResolves
    \/ CallRejects

ServerSpec == ServerInit /\ [][ServerNext]_vars

(***************************************************************************)
(* Properties                                                              *)
(***************************************************************************)
Count(seq, x) == Cardinality({j \in 1..Len(seq) : seq[j] = x})
Min(a, b) == IF a < b THEN a ELSE b
ValidConcurrency == ~concurrency.nan /\ concurrency.val >= 1
Printed(m) == \E j \in 1..Len(stdout) : stdout[j].msg = m
FailedFiles == {f.file : f \in failures}
\* puts started and not yet completed
InFlight == Len(puts) - Cardinality(stored)
                - Cardinality({f \in failures : f.kind = "put"})

\* C1: with a concurrency >= 1 and no failed read or put, no index is ever claimed
\* twice or out of range, and when the run has ended every index 0..L-1 has been
\* claimed exactly once.
C1_EachIndexClaimedOnce ==
    (ValidConcurrency /\ failures = {}) =>
        /\ \A j \in 1..Len(claimed) : claimed[j] \in 0..(entries - 1)
        /\ \A i \in 0..(entries - 1) : Count(claimed, i) <= 1
        /\ (pc = "exited" /\ thrown = "none") =>
               \A i \in 0..(entries - 1) : Count(claimed, i) = 1

C1_Witness ==
    /\ pc = "exited" /\ failures = {} /\ ~dry
    /\ concurrency = Num(2) /\ entries >= 3
    /\ Len(claimed) = entries /\ stored = 0..(entries - 1)

\* C2: in a live run that ends with exactly one failed file, every other
\* enumerated file has been put to the store successfully.
C2_SiblingsStillUpload ==
    (pc = "exited" /\ ~dry /\ Cardinality(failures) = 1) =>
        \A i \in 0..(entries - 1) : i \notin FailedFiles => i \in stored

\* the fatal errors of the error taxonomy: invalid configuration (missing root or
\* store configuration, non-positive or non-numeric concurrency), failed enumeration
InvalidConfig ==
    \/ dir = "" \/ bucket = "" \/ region = ""
    \/ concurrency.nan \/ concurrency.val <= 0
FatalError == pc # "start" /\ (InvalidConfig \/ thrown = "enumerate")

\* C3: the exit status is non-zero exactly if a file failed or a fatal
\* configuration or enumeration error occurred.
C3_ExitStatusIffFailure ==
    pc = "exited" => ((exitCode # 0) <=> (failures # {} \/ FatalError))

\* C4: a concurrency <= 0 launches no worker, reads and puts no file, and ends with
\* a non-zero exit status (stated for the non-empty file lists, where the run would
\* otherwise have work to do).
C4_NonPositiveConcurrencyRejected ==
    (pc = "exited" /\ fgCalled /\ entries > 0
        /\ ~concurrency.nan /\ concurrency.val <= 0) =>
            /\ runners = <<>> /\ claimed = <<>> /\ puts = <<>>
            /\ exitCode # 0
            /\ ~Printed("Done.")

\* C5: with a concurrency C >= 1 over L files, min(C, L) runners are launched and at
\* most min(C, L) puts are in flight at any time.
C5_WorkersClamped ==
    (ValidConcurrency /\ pc \in {"uploading", "rejected", "exited"}
        /\ thrown # "enumerate" /\ fgCalled) =>
            /\ Len(runners) = Min(concurrency.val, entries)
            /\ InFlight <= Min(concurrency.val, entries)

C5_Witness ==
    /\ pc = "uploading" /\ ValidConcurrency
    /\ concurrency.val > entries /\ entries >= 3
    /\ Len(runners) = entries /\ InFlight = entries

\* C6: with --dry no put is ever started, and when the run has completed ("Done.")
\* there is exactly one "[dry] PUT" line for each enumerated file.
C6_DryRunLogsEveryFile ==
    dry =>
        /\ puts = <<>>
        /\ (pc = "exited" /\ Printed("Done.")) =>
               \A i \in 0..(entries - 1) : Count(stdout, Line("[dry] PUT", i)) = 1

\* a relative path does not begin with a separator
IsRelative(r) == r # <<>> /\ r[1] \notin {"/", "\\"}

\* C7: the key of a relative path never begins with "/", whatever the prefix.
C7_KeyNeverBeginsWithSlash ==
    /\ (key1 # Unset /\ IsRelative(rel)) => (key1 = <<>> \/ key1[1] # "/")
    /\ (key2 # Unset /\ IsRelative(rel)) => (key2 = <<>> \/ key2[1] # "/")

\* The reference Key Mapper, as the algorithm is stated.
RECURSIVE StripLeading(_)
StripLeading(x) == IF x # <<>> /\ Head(x) = "/" THEN StripLeading(Tail(x)) ELSE x
RECURSIVE StripTrailing(_)
StripTrailing(x) ==
    IF x # <<>> /\ x[Len(x)] = "/" THEN StripTrailing(SubSeq(x, 1, Len(x) - 1)) ELSE x
RECURSIVE Normalize(_)
Normalize(x) ==
    IF x = <<>> THEN <<>>
    ELSE <<IF Head(x) = "\\" THEN "/" ELSE Head(x)>> \o Normalize(Tail(x))
TrimmedPrefix(x) == StripTrailing(StripLeading(x))
RefMap(r, x) ==
    IF x # <<>> THEN TrimmedPrefix(x) \o <<"/">> \o Normalize(r) ELSE Normalize(r)

\* the slash that joins the trimmed prefix and the path is not doubled in key k
JoinNotDoubled(k, x) ==
    LET j == Len(TrimmedPrefix(x)) + 1 IN
    /\ j <= Len(k) /\ k[j] = "/"
    /\ j > 1 => k[j - 1] # "/"
    /\ j < Len(k) => k[j + 1] # "/"

\* C8: for a relative path and a non-empty prefix, the key has no doubled slash at
\* the join of the trimmed prefix and the normalized path.
C8_NoDoubledSlashAtJoin ==
    (IsRelative(rel) /\ prefix # <<>>) =>
        /\ key1 # Unset => JoinNotDoubled(key1, prefix)
        /\ key2 # Unset => JoinNotDoubled(key2, prefix)

C8_Witness ==
    /\ prefix = <<"/", "a", "/">> /\ rel = <<"a">>
    /\ key1 = <<"a", "/", "a">> /\ key2 = <<"a", "/", "a">>

\* C9: the key each variant computes is the key of the reference Key Mapper, so
\* map(P, "") = normalize(P), and the two variants compute the same key.
C9_KeyEqualsReference ==
    /\ key1 # Unset => key1 = RefMap(rel, prefix)
    /\ key2 # Unset => key2 = RefMap(rel, prefix)
    /\ (key1 # Unset /\ key2 # Unset) => key1 = key2

C9_Witness ==
    /\ prefix = <<"a", "/">> /\ rel = <<"a", "\\", "a">>
    /\ key1 = <<"a", "/", "a", "/", "a">> /\ key2 = key1

MissingConfig == pc # "start" /\ (dir = "" \/ bucket = "" \/ region = "")

\* C10 as stated: with --dir, S3_BUCKET or AWS_REGION missing the process exits
\* non-zero after the usage message, before any enumeration, read or put.
C10_UsageMessageOnMissingConfig ==
    MissingConfig =>
        /\ pc = "exited" /\ exitCode # 0
        /\ stderr = <<"Usage">>
        /\ ~fgCalled /\ claimed = <<>> /\ puts = <<>>

\* C10 amended: with --dir missing the process prints the usage message; with --dir
\* given and S3_BUCKET or AWS_REGION missing it prints "Missing S3_BUCKET or
\* AWS_REGION in environment."; in both cases it exits non-zero at once, before any
\* enumeration, read or put.
C10_ExitBeforeEnumeration ==
    MissingConfig =>
        /\ pc = "exited" /\ exitCode # 0
        /\ stderr = <<IF dir = "" THEN "Usage" ELSE "Missing S3_BUCKET or AWS_REGION">>
        /\ ~fgCalled /\ claimed = <<>> /\ puts = <<>> /\ stdout = <<>>

C10_Witness ==
    /\ pc = "exited" /\ dir # "" /\ bucket = "" /\ region # ""
    /\ stderr = <<"Missing S3_BUCKET or AWS_REGION">> /\ exitCode = 1

\* C11 as stated: the content type of a put is the type looked up from the
\* extension and "application/octet-stream" when the lookup finds none, never empty
\* and never false, with file.xyz -> application/octet-stream and
\* photo.jpg -> image/jpeg.
C11_XyzGetsOctetStream ==
    /\ contentType1 # "unset" =>
           /\ contentType1 \notin {"", "false"}
           /\ ext = "xyz" => contentType1 = "application/octet-stream"
           /\ ext = "jpg" => contentType1 = "image/jpeg"
           /\ ext = "" => contentType1 = "application/octet-stream"
    /\ contentType2 # "unset" =>
           /\ contentType2 \notin {"", "false"}
           /\ ext = "xyz" => contentType2 = "application/octet-stream"
           /\ ext = "jpg" => contentType2 = "image/jpeg"
           /\ ext = "" => contentType2 = "application/octet-stream"

\* C11 amended: the content type of a put is the type the table has for the
\* extension, and "application/octet-stream" when it has none or the file has no
\* extension; it is never empty and never false.  The table has a type for xyz:
\* file.xyz -> chemical/x-xyz, photo.jpg -> image/jpeg, and a file without an
\* extension -> application/octet-stream.
C11_ContentTypeFallback ==
    /\ contentType1 # "unset" =>
           /\ contentType1 = (IF ext \in DOMAIN MimeTypes THEN MimeTypes[ext]
                              ELSE "application/octet-stream")
           /\ contentType1 \notin {"", "false"}
           /\ ext = "xyz" => contentType1 = "chemical/x-xyz"
           /\ ext = "jpg" => contentType1 = "image/jpeg"
           /\ ext \in {"", "bogus"} => contentType1 = "application/octet-stream"
    /\ contentType2 # "unset" =>
           /\ contentType2 = (IF ext \in DOMAIN MimeTypes THEN MimeTypes[ext]
                              ELSE "application/octet-stream")
           /\ contentType2 \notin {"", "false"}
           /\ ext = "xyz" => contentType2 = "chemical/x-xyz"
           /\ ext = "jpg" => contentType2 = "image/jpeg"
           /\ ext \in {"", "bogus"} => contentType2 = "application/octet-stream"

\* file.xyz has been given its content type by both variants
C11_Witness ==
    /\ ext = "xyz"
    /\ contentType1 = "chemical/x-xyz"
    /\ contentType2 = "chemical/x-xyz"

\* C12: a runner never ends because the worker threw on one of its files: the
\* failure is caught and the runner goes on to claim the next index, so that no
\* run() promise is ever rejected.
C12_WorkerSurvivesFailure ==
    \A k \in 1..Len(runners) : runners[k].st # "rejected"

\* C13: when "Done." has been printed every file has been claimed, every runner has
\* left its loop and no put is in flight.
C13_DoneAfterAllFiles ==
    Printed("Done.") =>
        /\ \A i \in 0..(entries - 1) : Count(claimed, i) >= 1
        /\ \A k \in 1..Len(runners) : runners[k].st = "done"
        /\ InFlight = 0

\* limitConcurrency has returned: Promise.all resolved and main() went on to "Done."
Returned == Printed("Done.")

\* C14: when limitConcurrency returns, results has exactly L entries and entry i
\* holds the value the worker returned for items[i].
C14_ResultsIndexedLikeItems ==
    Returned =>
        /\ Len(results) = entries
        /\ \A i \in 0..(entries - 1) : results[i + 1] = "undefined" /\ Count(claimed, i) = 1

C16_KeyMapperIdempotent ==
    /\ (key1 # Unset /\ IsRelative(rel)) => Key1(key1, <<>>) = key1
    /\ (key2 # Unset /\ IsRelative(rel)) => Key2(key2, <<>>) = key2

\* C17: called with the same items and the same integer limit >= 1, and fed the same
\* worker completions, the two variants of limitConcurrency start the same number of
\* runners, invoke the worker on the same indices in the same order, settle alike,
\* and return equal results.
C17_VariantsEquivalent ==
    /\ Len(lim1.runners) = Len(lim2.runners)
    /\ lim1.runners = lim2.runners
    /\ lim1.claimed = lim2.claimed
    /\ lim1.puts = lim2.puts /\ lim1.stored = lim2.stored
    /\ lim1.failures = lim2.failures /\ lim1.stdout = lim2.stdout
    /\ lim1.status = lim2.status
    /\ lim1.status = "returned" =>
           /\ lim1.results = lim2.results
           /\ lim1.results = [j \in 1..pairIn.len |-> "undefined"]

C17_Witness ==
    /\ lim1.status = "returned" /\ lim2.status = "returned"
    /\ pairIn.limit = 2 /\ pairIn.len = 3 /\ ~pairIn.dry
    /\ lim1.claimed = <<0, 1, 2>> /\ lim2.claimed = <<0, 1, 2>>
    /\ lim1.stored = {0, 1, 2}
    /\ lim1.nextIndex = 5 /\ lim2.nextIndex = 3
    /\ lim2.results = <<"undefined", "undefined", "undefined">>

\* C18: files are started in enumeration order: the cursor never decreases, the
\* worker invocations begin in the order of the indices 0, 1, 2, ... and the worker
\* is never invoked on an index >= L, whatever the interleaving and the limit.
C18_StartedInEnumerationOrder ==
    /\ [][nextIndex' >= nextIndex]_vars
    /\ [](\A j \in 1..Len(claimed) : claimed[j] = j - 1 /\ claimed[j] < entries)
    /\ [](\A k \in 1..Len(runners) :
             runners[k].st # "done" => runners[k].i \in 0..(entries - 1))

C18_Witness ==
    /\ pc = "uploading" /\ ~dry
    /\ ValidConcurrency /\ concurrency.val = 2 /\ entries = 3
    /\ claimed = <<0, 1, 2>>
    /\ \E k \in 1..Len(runners) : runners[k].st = "inflight" /\ runners[k].i = 2
    /\ \E k \in 1..Len(runners) : runners[k].st = "done"
    /\ nextIndex > entries

\* C19: on the three routes that take a key, a request whose key is missing or empty
\* is answered 400 'key is required' and makes no store or signing call; a request
\* with a key whose call fails is answered 500; no request is answered twice, and a
\* request whose handler has ended has been answered once.
C19_KeyedRoutesAnswerOnce ==
    \A j \in 1..Len(reqs) :
        LET r == reqs[j] IN
        r.route \in Routes =>
        /\ Falsy(r.key) =>
               /\ r.responses = <<Response(400, "key is required", "")>>
               /\ r.calls = <<>>
        /\ (~Falsy(r.key) /\ r.st = "failed") =>
               /\ Len(r.responses) = 1
               /\ r.responses[1].status = 500
               /\ r.responses[1].error = FailureOf(r.route)
        /\ Len(r.responses) <= 1
        /\ r.st # "awaiting" => Len(r.responses) = 1
        /\ r.st = "awaiting" => r.responses = <<>> /\ Len(r.calls) = 1

C19_Witness ==
    /\ Len(reqs) = 2
    /\ reqs[1].route = "DELETE /api/files" /\ reqs[1].key = Str("a.jpg")
    /\ reqs[1].st = "failed" /\ reqs[1].responses[1].status = 500
    /\ reqs[2].route = "POST /api/upload-url" /\ reqs[2].key = Str("")
    /\ reqs[2].responses[1].status = 400 /\ reqs[2].calls = <<>>

====
